---- MODULE Spec2Model ----
(***************************************************************************)
(* Model of the metrics Reporter of the compliance operator                *)
(* (pkg/controller/metrics): the four Prometheus instruments owned by a    *)
(* Metrics value, their registration with the process-wide registry, the   *)
(* HTTPS scrape server started by Start, and the mutation operations that  *)
(* the domain controllers call concurrently.                               *)
(*                                                                         *)
(* Library primitives are modelled by their documented behaviour:          *)
(*   - prometheus CounterVec/GaugeVec: With/WithLabelValues creates the    *)
(*     child of a label tuple on first use; Inc and Set on a child are     *)
(*     atomic;                                                             *)
(*   - prometheus.Register: fails with AlreadyRegisteredError when a       *)
(*     collector with the same fully-qualified name is registered;         *)
(*   - http.Handle: panics when the pattern is already bound on the        *)
(*     default multiplexer;                                                *)
(*   - http.Server.ListenAndServeTLS: blocks while serving and always     *)
(*     returns a non-nil error.                                            *)
(***************************************************************************)
EXTENDS Integers, Sequences, FiniteSets, TLC

\* ------------------------------------------------------------------ bounds

\* Total number of operation invocations (Register, Start, mutation calls)
\* the environment issues in one behaviour.
MaxOps == 3
\* Longest AddToManagerFuncs list.
MaxFuncs == 3

\* ------------------------------------------------------- program constants

metricNamespace == "compliance_operator"

metricNameComplianceScanStatus == "compliance_scan_status_total"
metricNameComplianceScanError == "compliance_scan_error_total"
metricNameComplianceRemediationStatus == "compliance_remediation_status_total"
metricNameComplianceStateGauge == "compliance_state"

metricLabelScanResult == "result"
metricLabelScanName == "name"
metricLabelSuiteName == "name"
metricLabelScanPhase == "phase"
metricLabelRemediationName == "name"
metricLabelRemediationState == "state"

HandlerPath == "/metrics-co"

METRIC_STATE_COMPLIANT == 0
METRIC_STATE_NON_COMPLIANT == 1
METRIC_STATE_INCONSISTENT == 2
METRIC_STATE_ERROR == 3

\* ------------------------------------------------------------ input domains

\* Two independently constructed Metrics values in one process.
Reporters == {"r1", "r2"}
\* The Metrics value AddToManager hands to every controller-add function.
Met == "r1"
\* Goroutines of the domain controllers calling the mutation operations on Met.
Callers == {"c1", "c2"}
\* Resource names (scan, remediation and suite names share one namespace of
\* strings: a scan, a remediation and a suite may carry the same name).
Names == {"a", "b"}
\* v1alpha1.ComplianceScanStatus values the controllers report: two differ in
\* the phase only, two in the result only, two carry an error message.
ScanStatuses ==
    { [Phase |-> "RUNNING", Result |-> "NOT-AVAILABLE", ErrorMessage |-> ""],
      [Phase |-> "DONE", Result |-> "NOT-AVAILABLE", ErrorMessage |-> "timed out"],
      [Phase |-> "DONE", Result |-> "COMPLIANT", ErrorMessage |-> ""],
      [Phase |-> "DONE", Result |-> "ERROR", ErrorMessage |-> "scan failed"] }
\* v1alpha1.ComplianceRemediationStatus.ApplicationState.
ApplicationStates == {"Applied", "Error"}
\* The four compliance-state setters.
Setters == {"InCompliance", "OutOfCompliance", "Inconsistent", "Error"}

NoReporter == "-"
NoName == "-"

VARIABLES
    scanStatus,     \* [Reporters -> label tuple -> count]  metricComplianceScanStatus
    scanError,      \* [Reporters -> label tuple -> count]  metricComplianceScanError
    remStatus,      \* [Reporters -> label tuple -> count]  metricComplianceRemediationStatus
    stateGauge,     \* [Reporters -> label tuple -> value]  metricComplianceStateGauge
    callers,        \* [Callers -> position of the goroutine inside a mutation call]
    registry,       \* process-wide default registry: fully-qualified name -> owner
    register,       \* [Reporters -> state of the current or last Register invocation]
    mux,            \* patterns bound on the process-wide HTTP multiplexer
    start,          \* [Reporters -> state of the current or last Start invocation]
    errorLog,       \* error-level log entries emitted so far
    ops,            \* number of invocations issued so far
    \* history of the calls issued (never read by the operations)
    issuedScan,     \* [Reporters -> <<name, phase, result>> -> number of calls]
    issuedError,    \* [Reporters -> <<name>> -> number of calls with an error message]
    issuedRem,      \* [Reporters -> <<name, state>> -> number of calls]
    lastSetter,     \* [Reporters -> <<name>> -> setter called last]
    registerHist,   \* [Reporters -> how many Register invocations began, and whether
                    \*  the last began after another Reporter's Register returned nil]
    manager         \* the AddToManager invocation: the AddToManagerFuncs list, the
                    \* Reporter handle passed, the manager's runnables, the calls made

metricVars == <<scanStatus, scanError, remStatus, stateGauge>>
callHistVars == <<issuedScan, issuedError, issuedRem, lastSetter>>
historyVars == <<issuedScan, issuedError, issuedRem, lastSetter, registerHist>>
registerVars == <<registry, register, registerHist>>
startVars == <<mux, start>>
vars == <<scanStatus, scanError, remStatus, stateGauge, callers,
          registry, register, mux, start, errorLog, ops,
          issuedScan, issuedError, issuedRem, lastSetter, registerHist,
          manager>>

\* ------------------------------------------------- instrument primitives

\* Label-name lists of the four vectors, in declaration order.
ScanErrorLabels == <<metricLabelScanName>>
\* (variant) the scan-status vector declared without the name label.
ScanStatusLabelsWithoutName == <<metricLabelScanPhase, metricLabelScanResult>>

ScanStatusLabels == <<metricLabelScanName, metricLabelScanPhase, metricLabelScanResult>>
\* (variant) the remediation-status vector keyed by the name alone.
RemediationStatusLabelsNameOnly == <<metricLabelRemediationName>>

RemediationStatusLabels == <<metricLabelRemediationName, metricLabelRemediationState>>
StateGaugeLabels == <<metricLabelSuiteName>>

\* (variant) the constructor creates a child with value 0.
NewVecWithChild == (<<"a">> :> 0)

\* A freshly constructed vector has no child.
NewVec == <<>>

\* (variant) the label values taken in the reverse of the declared order.
WithReversed(labelNames, labels) ==
    [i \in 1..Len(labelNames) |-> labels[labelNames[Len(labelNames) + 1 - i]]]

\* vec.With(labels): the child's key is the label values in the order of the
\* vector's label names.
With(labelNames, labels) == [i \in 1..Len(labelNames) |-> labels[labelNames[i]]]

\* vec.WithLabelValues(v...): the values are the key as given.
WithLabelValues(lvs) == lvs

\* The value read for a label tuple: that of its child, 0 when it has none.
Value(vec, key) == IF key \in DOMAIN vec THEN vec[key] ELSE 0

\* (variant) an increment of an existing child is lost.
IncLost(vec, key) == IF key \in DOMAIN vec THEN vec ELSE vec @@ (key :> 1)

\* (variant) the increment rebuilds the vector with the one child only.
IncFresh(vec, key) == (key :> Value(vec, key) + 1)

\* counter.Inc() on the child of key, created with value 0 on first use.
Inc(vec, key) ==
    IF key \in DOMAIN vec THEN [vec EXCEPT ![key] = @ + 1] ELSE vec @@ (key :> 1)

\* (variant) the value is written to every child of the vector.
SetAll(vec, key, v) == [k \in DOMAIN vec \cup {key} |-> v]

\* gauge.Set(v) on the child of key, created on first use.
Set(vec, key, v) ==
    IF key \in DOMAIN vec THEN [vec EXCEPT ![key] = v] ELSE vec @@ (key :> v)

\* (variant) len(status.ErrorMessage) >= 0
HasErrorMessageAlways(msg) == Len(msg) >= 0

\* len(status.ErrorMessage) > 0
HasErrorMessage(msg) == Len(msg) > 0

\* History bookkeeping (not program code): one more call recorded for key, and
\* the number recorded.
Record(hist, key) ==
    IF key \in DOMAIN hist THEN [hist EXCEPT ![key] = @ + 1] ELSE hist @@ (key :> 1)
Recorded(hist, key) == IF key \in DOMAIN hist THEN hist[key] ELSE 0
Remember(hist, key, v) ==
    IF key \in DOMAIN hist THEN [hist EXCEPT ![key] = v] ELSE hist @@ (key :> v)
NoHistory == <<>>

\* ------------------------------------------------------------------- Init

Idle == [pc |-> "idle", met |-> NoReporter, name |-> NoName]

\* Error values. Nil is Go's nil error; None stands for "no value yet".
Nil == "nil"
None == "none"

\* The values Register returns are records: a wrapped error carries the failed
\* call's error and the instrument name of the wrapping message.
NilResult == [err |-> Nil, metric |-> NoName]
NoResult == [err |-> None, metric |-> NoName]

\* A Register invocation: where it stands, how many adapter calls it made, the
\* instruments whose adapter call succeeded (ok) or failed (failed), and what
\* it returned.
NotRegistering ==
    [pc |-> "idle", calls |-> 0, ok |-> {}, failed |-> {}, result |-> NoResult]
NotStarted == [pc |-> "idle", ret |-> None, listenErr |-> Nil, ctxDone |-> FALSE]

\* Error values of AddToManager: nil, the error of m.Add, the error of a
\* controller-add function.
NoError == [err |-> Nil, from |-> None]
AddError == [err |-> "error", from |-> "m.Add"]
FuncError(f) == [err |-> "error", from |-> f]

\* AddToManager before it is invoked with the list funcs and the handle met.
ManagerWith(funcs, met) ==
    [funcs |-> funcs, met |-> met, pc |-> "ready", runnables |-> {},
     invoked |-> <<>>, ret |-> [err |-> None, from |-> None]]

\* A process in which AddToManager is not under study: an empty list.
NoManager == ManagerWith(<<>>, Met)

Init ==
    /\ scanStatus = [r \in Reporters |-> NewVec]
    /\ scanError = [r \in Reporters |-> NewVec]
    /\ remStatus = [r \in Reporters |-> NewVec]
    /\ stateGauge = [r \in Reporters |-> NewVec]
    /\ callers = [c \in Callers |-> Idle]
    /\ registry = <<>>
    /\ register = [r \in Reporters |-> NotRegistering]
    /\ mux = {}
    /\ start = [r \in Reporters |-> NotStarted]
    /\ errorLog = {}
    /\ ops = 0
    /\ issuedScan = [r \in Reporters |-> NoHistory]
    /\ issuedError = [r \in Reporters |-> NoHistory]
    /\ issuedRem = [r \in Reporters |-> NoHistory]
    /\ lastSetter = [r \in Reporters |-> NoHistory]
    /\ registerHist = [r \in Reporters |-> [count |-> 0, afterSuccess |-> FALSE]]
    /\ manager = NoManager

\* ------------------------------------------------------ mutation operations

\* IncComplianceScanStatus, first statement: the scan-status increment. The
\* goroutine then stands before the scan-error increment when the status
\* carries an error message, and has returned otherwise.
IncComplianceScanStatus(c, r, name, status) ==
    /\ callers[c].pc = "idle"
    /\ ops < MaxOps
    /\ ops' = ops + 1
    /\ scanStatus' = [scanStatus EXCEPT ![r] =
            Inc(@, With(ScanStatusLabels,
                        (metricLabelScanName :> name)
                        @@ (metricLabelScanPhase :> status.Phase)
                        @@ (metricLabelScanResult :> status.Result)))]
    /\ callers' = [callers EXCEPT ![c] =
            IF HasErrorMessage(status.ErrorMessage)
            THEN [pc |-> "scanError", met |-> r, name |-> name]
            ELSE Idle]
    /\ issuedScan' = [issuedScan EXCEPT ![r] = Record(@, <<name, status.Phase, status.Result>>)]
    /\ issuedError' = [issuedError EXCEPT ![r] =
            IF status.ErrorMessage # "" THEN Record(@, <<name>>) ELSE @]
    /\ UNCHANGED <<scanError, remStatus, stateGauge, issuedRem, lastSetter>>
    /\ UNCHANGED <<registerVars, startVars, errorLog>>
    /\ UNCHANGED manager

\* IncComplianceScanStatus, second statement: the scan-error increment.
IncComplianceScanError(c) ==
    /\ callers[c].pc = "scanError"
    /\ scanError' = [scanError EXCEPT ![callers[c].met] =
            Inc(@, With(ScanErrorLabels, (metricLabelScanName :> callers[c].name)))]
    /\ callers' = [callers EXCEPT ![c] = Idle]
    /\ UNCHANGED <<scanStatus, remStatus, stateGauge, ops, historyVars>>
    /\ UNCHANGED <<registry, register, startVars, errorLog>>
    /\ UNCHANGED manager

IncComplianceRemediationStatus(c, r, name, state) ==
    /\ callers[c].pc = "idle"
    /\ ops < MaxOps
    /\ ops' = ops + 1
    /\ remStatus' = [remStatus EXCEPT ![r] =
            Inc(@, With(RemediationStatusLabels,
                        (metricLabelRemediationName :> name)
                        @@ (metricLabelRemediationState :> state)))]
    /\ issuedRem' = [issuedRem EXCEPT ![r] = Record(@, <<name, state>>)]
    /\ UNCHANGED <<scanStatus, scanError, stateGauge, callers,
                   issuedScan, issuedError, lastSetter>>
    /\ UNCHANGED <<registerVars, startVars, errorLog>>
    /\ UNCHANGED manager

\* (variant) every setter passes the constant after its own.
SetterValueOffByOne(setter) ==
    CASE setter = "Error" -> METRIC_STATE_ERROR + 1
      [] setter = "Inconsistent" -> METRIC_STATE_INCONSISTENT + 1
      [] setter = "OutOfCompliance" -> METRIC_STATE_NON_COMPLIANT + 1
      [] setter = "InCompliance" -> METRIC_STATE_COMPLIANT + 1

\* (variant) the Error and Inconsistent setters pass each other's constant.
SetterValueSwapped(setter) ==
    CASE setter = "Error" -> METRIC_STATE_INCONSISTENT
      [] setter = "Inconsistent" -> METRIC_STATE_ERROR
      [] setter = "OutOfCompliance" -> METRIC_STATE_NON_COMPLIANT
      [] setter = "InCompliance" -> METRIC_STATE_COMPLIANT

\* The value each setter passes to Set.
SetterValue(setter) ==
    CASE setter = "Error" -> METRIC_STATE_ERROR
      [] setter = "Inconsistent" -> METRIC_STATE_INCONSISTENT
      [] setter = "OutOfCompliance" -> METRIC_STATE_NON_COMPLIANT
      [] setter = "InCompliance" -> METRIC_STATE_COMPLIANT

\* SetComplianceStateError / Inconsistent / OutOfCompliance / InCompliance.
SetComplianceState(c, r, setter, name) ==
    /\ callers[c].pc = "idle"
    /\ ops < MaxOps
    /\ ops' = ops + 1
    /\ stateGauge' = [stateGauge EXCEPT ![r] =
            Set(@, WithLabelValues(<<name>>), SetterValue(setter))]
    /\ lastSetter' = [lastSetter EXCEPT ![r] = Remember(@, <<name>>, setter)]
    /\ UNCHANGED <<scanStatus, scanError, remStatus, callers,
                   issuedScan, issuedError, issuedRem>>
    /\ UNCHANGED <<registerVars, startVars, errorLog>>
    /\ UNCHANGED manager

\* ---------------------------------------------------------------- Register

\* (variant) the operation builds the instruments of every Reporter anew.
InstrumentsRebuilt ==
    /\ scanStatus' = [r \in Reporters |-> NewVec]
    /\ scanError' = [r \in Reporters |-> NewVec]
    /\ remStatus' = [r \in Reporters |-> NewVec]
    /\ stateGauge' = [r \in Reporters |-> NewVec]

\* Register and Start hold no statement that writes to a vector or a child:
\* Register only passes the vectors to the adapter, Start does not name them.
InstrumentsUntouched == UNCHANGED metricVars

\* The fixed instrument set Register iterates over (the keys of its map).
Instruments ==
    { metricNameComplianceScanError, metricNameComplianceScanStatus,
      metricNameComplianceRemediationStatus, metricNameComplianceStateGauge }

\* The identity under which the registry knows a collector: its namespace and
\* name. Collectors of two Metrics values built by DefaultControllerMetrics
\* have equal identities.
FQName(name) == <<metricNamespace, name>>

\* prometheus.Register(c): the error returned for the collector of instrument
\* name, given the registry.
PrometheusRegister(reg, name) ==
    IF FQName(name) \in DOMAIN reg THEN "AlreadyRegisteredError" ELSE Nil

\* (variant) the adapter logs the error and returns nil.
DefaultImplRegisterSwallows(reg, name) == Nil

\* defaultImpl.Register: returns the error of prometheus.Register unchanged.
DefaultImplRegister(reg, name) == PrometheusRegister(reg, name)

\* (variant) a failed adapter call unregisters what r had registered.
RegistryAfterRollback(reg, r, name) ==
    IF PrometheusRegister(reg, name) = Nil
    THEN reg @@ (FQName(name) :> r)
    ELSE [fq \in { f \in DOMAIN reg : reg[f] # r } |-> reg[fq]]

\* (variant) the adapter call leaves the registry as it was.
RegistryAfterUnchanged(reg, r, name) == reg

\* The registry after the adapter call for r's collector of instrument name.
RegistryAfter(reg, r, name) ==
    IF PrometheusRegister(reg, name) = Nil THEN reg @@ (FQName(name) :> r) ELSE reg

\* errors.Wrapf(err, "register collector for %s metric", name)
Wrapf(err, name) == [err |-> err, metric |-> name]

\* (variant) the loop goes on after a failed adapter call.
RegisterLoopEndsWhenExhausted(err, remaining) == remaining = {}

\* Whether the loop of Register ends after an adapter call: on its error, or
\* when no instrument remains.
RegisterLoopEnds(err, remaining) == err # Nil \/ remaining = {}

\* What Register returns when its loop ends after the call for name.
RegisterReturns(err, name) == IF err # Nil THEN Wrapf(err, name) ELSE NilResult

\* One iteration of Register's loop on Reporter r, visiting instrument name;
\* ok and failed are the adapter calls this invocation has made so far. The
\* map is ranged over in an unspecified order, each key once.
RegisterIteration(r, calls, ok, failed, name) ==
    LET err == DefaultImplRegister(registry, name)
        remaining == Instruments \ (ok \cup failed \cup {name})
        ends == RegisterLoopEnds(err, remaining)
    IN  /\ name \in Instruments \ (ok \cup failed)
        /\ registry' = RegistryAfter(registry, r, name)
        /\ register' = [register EXCEPT ![r] =
                [pc |-> IF ends THEN "idle" ELSE "running",
                 calls |-> calls + 1,
                 ok |-> IF err = Nil THEN ok \cup {name} ELSE ok,
                 failed |-> IF err # Nil THEN failed \cup {name} ELSE failed,
                 result |-> IF ends THEN RegisterReturns(err, name) ELSE NoResult]]
        /\ errorLog' = IF err # Nil
                       THEN errorLog \cup {<<r, "Failed to register metric", name>>}
                       ELSE errorLog

\* Register is invoked on r and runs its first iteration.
RegisterCall(r, name) ==
    /\ register[r].pc = "idle"
    /\ ops < MaxOps
    /\ ops' = ops + 1
    /\ RegisterIteration(r, 0, {}, {}, name)
    /\ registerHist' = [registerHist EXCEPT ![r] =
            [count |-> @.count + 1,
             afterSuccess |-> \E s \in Reporters \ {r} : register[s].result = NilResult]]
    /\ InstrumentsUntouched
    /\ UNCHANGED <<callers, startVars, callHistVars>>
    /\ UNCHANGED manager

\* A running Register on r runs its next iteration.
RegisterLoop(r, name) ==
    /\ register[r].pc = "running"
    /\ RegisterIteration(r, register[r].calls, register[r].ok, register[r].failed, name)
    /\ InstrumentsUntouched
    /\ UNCHANGED <<callers, startVars, ops, callHistVars, registerHist>>
    /\ UNCHANGED manager

\* ------------------------------------------------------------------- Start

\* What ListenAndServeTLS can do when called: serve (and block), or return at
\* once because the certificate/key files cannot be read.
ListenOutcomes == {"serving", "certUnreadable"}

\* (variant) binding a pattern again replaces the handler silently.
HandleNeverPanics(m, pattern) == pattern \in {}

\* http.Handle(pattern, handler) panics when pattern is already bound.
HandlePanics(m, pattern) == pattern \in m

\* (variant) Start propagates the listener's error.
StartReturnsListenError(err) == err

\* The error value Start returns once ListenAndServeTLS has returned err.
StartReturns(err) == Nil

\* Start is invoked on r with a fresh context: it binds the scrape handler and
\* calls ListenAndServeTLS, which either blocks serving or returns an error
\* that Start logs before returning.
StartCall(r, outcome) ==
    /\ start[r].pc # "serving"
    /\ ops < MaxOps
    /\ ops' = ops + 1
    /\ IF HandlePanics(mux, HandlerPath)
       THEN /\ start' = [start EXCEPT ![r] =
                    [pc |-> "panicked", ret |-> None, listenErr |-> Nil, ctxDone |-> FALSE]]
            /\ UNCHANGED <<mux, errorLog>>
       ELSE /\ mux' = mux \cup {HandlerPath}
            /\ IF outcome = "serving"
               THEN /\ start' = [start EXCEPT ![r] =
                            [pc |-> "serving", ret |-> None, listenErr |-> Nil,
                             ctxDone |-> FALSE]]
                    /\ UNCHANGED errorLog
               ELSE /\ start' = [start EXCEPT ![r] =
                            [pc |-> "returned", ret |-> StartReturns(outcome),
                             listenErr |-> outcome, ctxDone |-> FALSE]]
                    /\ errorLog' = errorLog \cup {<<r, "Metrics service failed", outcome>>}
    /\ InstrumentsUntouched
    /\ UNCHANGED <<callers, registerVars, callHistVars>>
    /\ UNCHANGED manager

\* The serving listener of r terminates with an error; Start logs it and returns.
ListenerTerminates(r) ==
    /\ start[r].pc = "serving"
    /\ start' = [start EXCEPT ![r] =
            [pc |-> "returned", ret |-> StartReturns("serveError"),
             listenErr |-> "serveError", ctxDone |-> @.ctxDone]]
    /\ errorLog' = errorLog \cup {<<r, "Metrics service failed", "serveError">>}
    /\ InstrumentsUntouched
    /\ UNCHANGED <<callers, registerVars, mux, ops, callHistVars>>
    /\ UNCHANGED manager

\* The host cancels the context it passed to r's Start. Start never reads its
\* context, and nothing else holds the server, so no step of the program
\* reacts.
CancelContext(r) ==
    /\ start[r].pc = "serving"
    /\ ~start[r].ctxDone
    /\ start' = [start EXCEPT ![r].ctxDone = TRUE]
    /\ InstrumentsUntouched
    /\ UNCHANGED <<callers, registerVars, mux, errorLog, ops, callHistVars>>
    /\ UNCHANGED manager

\* ------------------------------------------------------------------ scrape

\* The vector of Reporter r that Register passes as the collector of
\* instrument name.
Collector(r, name) ==
    CASE name = metricNameComplianceScanError -> scanError[r]
      [] name = metricNameComplianceScanStatus -> scanStatus[r]
      [] name = metricNameComplianceRemediationStatus -> remStatus[r]
      [] name = metricNameComplianceStateGauge -> stateGauge[r]

\* What the scrape handler bound by Start answers: it gathers from the default
\* registry, and every registered collector yields one sample per child it
\* has. A registered vector without a child yields nothing, not even its name.
Scrape ==
    UNION { { <<name, key, Collector(registry[FQName(name)], name)[key]>> :
                key \in DOMAIN Collector(registry[FQName(name)], name) } :
            name \in { n \in Instruments : FQName(n) \in DOMAIN registry } }

\* The instrument names that occur in a scrape.
ScrapeNames == { sample[1] : sample \in Scrape }

\* ------------------------------------------------------------------- Next

Next ==
    \/ \E c \in Callers, name \in Names, status \in ScanStatuses :
            IncComplianceScanStatus(c, Met, name, status)
    \/ \E c \in Callers : IncComplianceScanError(c)
    \/ \E c \in Callers, name \in Names, state \in ApplicationStates :
            IncComplianceRemediationStatus(c, Met, name, state)
    \/ \E c \in Callers, setter \in Setters, name \in Names :
            SetComplianceState(c, Met, setter, name)
    \/ \E r \in Reporters, name \in Instruments : RegisterCall(r, name)
    \/ \E r \in Reporters, name \in Instruments : RegisterLoop(r, name)
    \/ \E r \in Reporters, outcome \in ListenOutcomes : StartCall(r, outcome)
    \/ \E r \in Reporters : ListenerTerminates(r)
    \/ \E r \in Reporters : CancelContext(r)

Spec == Init /\ [][Next]_vars

\* The steps the program takes by itself once an invocation is running: the
\* remaining iterations of Register's loop and the scan-error increment that
\* follows a scan-status increment. Whether a listener fails, and whether the
\* host cancels a context, is up to the environment.
ProgramStep ==
    \/ \E r \in Reporters, name \in Instruments : RegisterLoop(r, name)
    \/ \E c \in Callers : IncComplianceScanError(c)

FairSpec == Init /\ [][Next]_vars /\ WF_vars(ProgramStep)

\* ------------------------------------------------------------ AddToManager

\* The controller-add functions a list can hold.
Funcs == {"f1", "f2"}

\* The lists AddToManagerFuncs can be: every sequence of at most MaxFuncs
\* functions.
RECURSIVE SeqsUpTo(_)
SeqsUpTo(n) ==
    IF n = 0 THEN {<<>>}
    ELSE LET shorter == SeqsUpTo(n - 1)
         IN shorter \cup { Append(q, f) : q \in { x \in shorter : Len(x) = n - 1 }, f \in Funcs }

FuncLists == SeqsUpTo(MaxFuncs)

\* (variant) the loop goes on after a function returned an error.
AddToManagerLoopRunsOut(err, i, n) == i = n

\* The loop over AddToManagerFuncs is left after call i of n returned err: at
\* the first error, or when the list is exhausted.
AddToManagerLoopEnds(err, i, n) == err # NoError \/ i = n

\* AddToManager is invoked: m.Add(met) returns addErr; on an error AddToManager
\* returns it, otherwise the manager holds met and the loop is entered (and
\* left at once when the list is empty).
AddToManagerCall(addErr) ==
    /\ manager.pc = "ready"
    /\ IF addErr # NoError
       THEN manager' = [manager EXCEPT !.pc = "returned", !.ret = addErr]
       ELSE manager' = [manager EXCEPT
                !.runnables = @ \cup {manager.met},
                !.pc = IF AddToManagerLoopEnds(NoError, 0, Len(manager.funcs))
                       THEN "returned" ELSE "loop",
                !.ret = IF AddToManagerLoopEnds(NoError, 0, Len(manager.funcs))
                        THEN NoError ELSE @]
    /\ UNCHANGED <<metricVars, callers, registerVars, startVars, errorLog, ops,
                   callHistVars>>

\* One iteration of the loop: the next function of the list is invoked with
\* the handle met and returns err; an error is returned at once, and nil is
\* returned after the last function.
AddToManagerLoop(err) ==
    /\ manager.pc = "loop"
    /\ LET i == Len(manager.invoked) + 1
           f == manager.funcs[i]
       IN /\ err \in {NoError, FuncError(f)}
          /\ manager' = [manager EXCEPT
                !.invoked = Append(@, [fn |-> f, met |-> manager.met,
                                       added |-> manager.met \in manager.runnables,
                                       err |-> err]),
                !.pc = IF AddToManagerLoopEnds(err, i, Len(manager.funcs))
                       THEN "returned" ELSE "loop",
                !.ret = IF AddToManagerLoopEnds(err, i, Len(manager.funcs))
                        THEN err ELSE @]
    /\ UNCHANGED <<metricVars, callers, registerVars, startVars, errorLog, ops,
                   callHistVars>>

\* A process that calls AddToManager with some list and some Reporter handle.
InitAddToManager ==
    /\ scanStatus = [r \in Reporters |-> NewVec]
    /\ scanError = [r \in Reporters |-> NewVec]
    /\ remStatus = [r \in Reporters |-> NewVec]
    /\ stateGauge = [r \in Reporters |-> NewVec]
    /\ callers = [c \in Callers |-> Idle]
    /\ registry = <<>>
    /\ register = [r \in Reporters |-> NotRegistering]
    /\ mux = {}
    /\ start = [r \in Reporters |-> NotStarted]
    /\ errorLog = {}
    /\ ops = 0
    /\ issuedScan = [r \in Reporters |-> NoHistory]
    /\ issuedError = [r \in Reporters |-> NoHistory]
    /\ issuedRem = [r \in Reporters |-> NoHistory]
    /\ lastSetter = [r \in Reporters |-> NoHistory]
    /\ registerHist = [r \in Reporters |-> [count |-> 0, afterSuccess |-> FALSE]]
    /\ \E funcs \in FuncLists, met \in Reporters : manager = ManagerWith(funcs, met)

NextAddToManager ==
    \/ \E addErr \in {NoError, AddError} : AddToManagerCall(addErr)
    \/ \E err \in {NoError} \cup { FuncError(f) : f \in Funcs } : AddToManagerLoop(err)

SpecAddToManager == InitAddToManager /\ [][NextAddToManager]_vars

\* ================================================================== claims

\* Label tuples the inputs can name.
ScanStatusTuples == { <<n, st.Phase, st.Result>> : n \in Names, st \in ScanStatuses }
ScanErrorTuples == { <<n>> : n \in Names }
RemediationTuples == { <<n, a>> : n \in Names, a \in ApplicationStates }
SuiteTuples == { <<n>> : n \in Names }

AllCallersIdle == \A c \in Callers : callers[c].pc = "idle"

\* Calls that have made their scan-status increment and not yet their
\* scan-error increment for name on r.
PendingScanErrors(r, name) ==
    Cardinality({ c \in Callers : /\ callers[c].pc = "scanError"
                                  /\ callers[c].met = r
                                  /\ callers[c].name = name })

\* C1: Start never returns an error value. Whenever the listener failed to
\* start or terminated with an error, Start has returned nil and the failure
\* is in the error log.
C1_StartReturnsNil ==
    \A r \in Reporters :
        /\ start[r].ret \in {None, Nil}
        /\ start[r].pc = "returned" => start[r].ret = Nil
        /\ start[r].listenErr # Nil =>
                /\ start[r].pc = "returned"
                /\ start[r].ret = Nil
                /\ <<r, "Metrics service failed", start[r].listenErr>> \in errorLog

\* C1 witness: Start has returned after the certificate could not be read.
C1_Witness ==
    \E r \in Reporters :
        start[r].pc = "returned" /\ start[r].listenErr = "certUnreadable"

\* C2 (as claimed): once the context of a serving Start is cancelled, that
\* Start eventually returns.
C2_CancelledStartReturns ==
    \A r \in Reporters :
        (start[r].pc = "serving" /\ start[r].ctxDone) ~> (start[r].pc = "returned")

\* C3: a Register that begins after another Reporter's Register returned nil
\* makes one adapter call and returns its duplicate-registration error,
\* wrapped and logged; the first Register of the process, run with no other
\* Register begun, returns nil.
C3_SecondRegisterFailsDuplicate ==
    \A r \in Reporters :
        /\ (registerHist[r].afterSuccess /\ register[r].pc = "idle") =>
                /\ register[r].result.err = "AlreadyRegisteredError"
                /\ register[r].result.metric \in Instruments
                /\ register[r].calls = 1
                /\ <<r, "Failed to register metric", register[r].result.metric>>
                        \in errorLog
        /\ ( /\ register[r].pc = "idle"
             /\ registerHist[r].count = 1
             /\ \A s \in Reporters \ {r} : registerHist[s].count = 0 ) =>
                register[r].result = NilResult

\* C3 witness: one Reporter's Register returned nil and the other's, begun
\* afterwards, has returned.
C3_Witness ==
    \E r \in Reporters, s \in Reporters :
        /\ r # s
        /\ register[r].result = NilResult
        /\ registerHist[s].afterSuccess
        /\ register[s].pc = "idle"

\* C4: the scan-status counter of every (name, phase, result) tuple reads the
\* number of IncComplianceScanStatus calls made with that tuple, and no other
\* tuple has a child.
C4_ScanStatusCountsCalls ==
    \A r \in Reporters :
        /\ DOMAIN scanStatus[r] \subseteq ScanStatusTuples
        /\ \A key \in ScanStatusTuples :
                Value(scanStatus[r], key) = Recorded(issuedScan[r], key)

\* C4 witness: one tuple was named twice, with a call for another tuple too.
C4_Witness ==
    \E k1 \in ScanStatusTuples, k2 \in ScanStatusTuples :
        /\ k1 # k2
        /\ Recorded(issuedScan[Met], k1) = 2
        /\ Recorded(issuedScan[Met], k2) = 1

\* C5: for every scan name, the scan-error counter plus the scan-error
\* increments still pending equals the number of calls made with a non-empty
\* error message: each such call adds exactly one, a call with an empty
\* message adds nothing.
C5_ScanErrorPerErrorCall ==
    \A r \in Reporters :
        /\ DOMAIN scanError[r] \subseteq ScanErrorTuples
        /\ \A n \in Names :
                Value(scanError[r], <<n>>) + PendingScanErrors(r, n)
                    = Recorded(issuedError[r], <<n>>)

\* C5 witness: of three finished calls for one scan name, one carried an error
\* message.
C5_Witness ==
    \E n \in Names :
        /\ AllCallersIdle
        /\ Recorded(issuedError[Met], <<n>>) = 1
        /\ \E k1 \in ScanStatusTuples, k2 \in ScanStatusTuples :
              /\ k1[1] = n /\ k2[1] = n /\ k1 # k2
              /\ Recorded(issuedScan[Met], k1) = 2
              /\ Recorded(issuedScan[Met], k2) = 1

\* The ordinal the specification gives each setter.
SetterOrdinal(setter) ==
    CASE setter = "InCompliance" -> 0
      [] setter = "OutOfCompliance" -> 1
      [] setter = "Inconsistent" -> 2
      [] setter = "Error" -> 3

\* C6: the gauge of a suite name reads the ordinal of the setter called last
\* for that name, and a name no setter was called for has no child.
C6_GaugeReadsLastSetter ==
    \A r \in Reporters :
        /\ DOMAIN stateGauge[r] = DOMAIN lastSetter[r]
        /\ \A key \in DOMAIN lastSetter[r] :
                stateGauge[r][key] = SetterOrdinal(lastSetter[r][key])

\* C6 witness: three setter calls were made for one suite name, the last of
\* them SetComplianceStateInCompliance.
C6_Witness ==
    \E n \in Names :
        /\ ops = 3
        /\ DOMAIN lastSetter[Met] = {<<n>>}
        /\ lastSetter[Met][<<n>>] = "InCompliance"
        /\ issuedScan[Met] = <<>> /\ issuedRem[Met] = <<>>
        /\ \A r \in Reporters : registerHist[r].count = 0 /\ start[r].pc = "idle"

\* C7: the remediation-status counter of every (name, state) tuple reads the
\* number of IncComplianceRemediationStatus calls made with that tuple.
C7_RemediationCountsCalls ==
    \A r \in Reporters :
        /\ DOMAIN remStatus[r] \subseteq RemediationTuples
        /\ \A key \in RemediationTuples :
                Value(remStatus[r], key) = Recorded(issuedRem[r], key)

\* C7 witness: two calls for (a, Applied) and one for (a, Error) read 2 and 1.
C7_Witness ==
    /\ Value(remStatus[Met], <<"a", "Applied">>) = 2
    /\ Value(remStatus[Met], <<"a", "Error">>) = 1

\* C8: a Register invocation calls the adapter at most once per instrument;
\* after a failed call it makes no further call and has returned that error
\* wrapped with the failed instrument's name; it returns nil exactly when all
\* four calls succeeded.
C8_RegisterStopsAtFirstFailure ==
    \A r \in Reporters :
        LET g == register[r] IN
        /\ g.ok \subseteq Instruments /\ g.failed \subseteq Instruments
        /\ g.ok \cap g.failed = {}
        /\ g.calls = Cardinality(g.ok) + Cardinality(g.failed)
        /\ Cardinality(g.failed) <= 1
        /\ g.failed # {} =>
                /\ g.pc = "idle"
                /\ g.result.err = "AlreadyRegisteredError"
                /\ g.failed = {g.result.metric}
        /\ g.pc = "running" => g.result = NoResult
        /\ (g.pc = "idle" /\ g.calls > 0 /\ g.failed = {}) =>
                g.result = NilResult /\ g.ok = Instruments
        /\ g.result = NilResult => g.ok = Instruments /\ g.failed = {}

\* C8 witness: a Register failed at its third adapter call.
C8_Witness ==
    \E r \in Reporters :
        Cardinality(register[r].ok) = 2 /\ register[r].failed # {}

C10_CountersNeverDecrease ==
    [][ \A r \in Reporters :
            /\ DOMAIN scanStatus[r] \subseteq DOMAIN scanStatus'[r]
            /\ DOMAIN scanError[r] \subseteq DOMAIN scanError'[r]
            /\ DOMAIN remStatus[r] \subseteq DOMAIN remStatus'[r]
            /\ \A key \in ScanStatusTuples :
                    Value(scanStatus'[r], key) >= Value(scanStatus[r], key)
            /\ \A key \in ScanErrorTuples :
                    Value(scanError'[r], key) >= Value(scanError[r], key)
            /\ \A key \in RemediationTuples :
                    Value(remStatus'[r], key) >= Value(remStatus[r], key)
      ]_vars

\* C10 witness: a counter was incremented on a Reporter whose Register has
\* returned and whose Start is serving.
C10_Witness ==
    /\ \E key \in ScanStatusTuples : Value(scanStatus[Met], key) >= 1
    /\ register[Met].result = NilResult
    /\ start[Met].pc = "serving"

\* C11: the compliance-state gauge of every suite name that has a child reads
\* one of the four ordinals 0, 1, 2, 3.
C11_GaugeIsOneOfFourOrdinals ==
    \A r \in Reporters :
        /\ DOMAIN stateGauge[r] \subseteq SuiteTuples
        /\ \A key \in DOMAIN stateGauge[r] : stateGauge[r][key] \in {0, 1, 2, 3}

\* C11 witness: two suite names have a gauge child, one reading 3 (error) and
\* one reading 0 (compliant).
C11_Witness ==
    /\ Value(stateGauge[Met], <<"a">>) = 3
    /\ <<"b">> \in DOMAIN stateGauge[Met]
    /\ stateGauge[Met][<<"b">>] = 0

\* The number of increments or sets made so far on the child of key of r's
\* vector for instrument name, by the history.
Observed(r, name, key) ==
    CASE name = metricNameComplianceScanStatus -> Recorded(issuedScan[r], key)
      [] name = metricNameComplianceScanError ->
            Recorded(issuedError[r], key) - PendingScanErrors(r, key[1])
      [] name = metricNameComplianceRemediationStatus -> Recorded(issuedRem[r], key)
      [] name = metricNameComplianceStateGauge ->
            IF key \in DOMAIN lastSetter[r] THEN 1 ELSE 0

TuplesOf(name) ==
    CASE name = metricNameComplianceScanStatus -> ScanStatusTuples
      [] name = metricNameComplianceScanError -> ScanErrorTuples
      [] name = metricNameComplianceRemediationStatus -> RemediationTuples
      [] name = metricNameComplianceStateGauge -> SuiteTuples

\* C12: a label tuple of an instrument has a child exactly when an increment
\* or set was made for it; no other tuple has one, and every sample of a
\* scrape is of a tuple that was observed.
C12_DataPointIffObserved ==
    /\ \A r \in Reporters, name \in Instruments :
            /\ DOMAIN Collector(r, name) \subseteq TuplesOf(name)
            /\ \A key \in TuplesOf(name) :
                    key \in DOMAIN Collector(r, name) <=> Observed(r, name, key) > 0
    /\ \A sample \in Scrape :
            Observed(registry[FQName(sample[1])], sample[1], sample[2]) > 0

\* C12 witness: all four instruments of Met are registered, one tuple was
\* observed, and the scrape holds that one sample.
C12_Witness ==
    /\ register[Met].result = NilResult
    /\ Cardinality(Scrape) = 1
    /\ \E key \in ScanStatusTuples :
            <<metricNameComplianceScanStatus, key, 1>> \in Scrape

\* C13 (as claimed): once a Register has returned nil, all four instrument
\* names occur in a scrape.
C13_AllNamesVisibleAfterRegister ==
    \A r \in Reporters :
        register[r].result = NilResult => ScrapeNames = Instruments

\* C13 (amended): once a Register of r has returned nil, all four instruments
\* are registered as r's collectors, and the names that occur in a scrape are
\* those of the instruments with at least one observed label tuple.
C13_RegisteredAndVisibleOnceObserved ==
    \A r \in Reporters :
        register[r].result = NilResult =>
            /\ \A name \in Instruments :
                    /\ FQName(name) \in DOMAIN registry
                    /\ registry[FQName(name)] = r
            /\ ScrapeNames =
                    { name \in Instruments : DOMAIN Collector(r, name) # {} }

\* C13 witness: Register of Met returned nil and two of the four names occur
\* in the scrape.
C13_Witness ==
    /\ register[Met].result = NilResult
    /\ Cardinality(ScrapeNames) = 2

\* C14: whatever Register and Start have done so far, a caller outside a call
\* can make each mutation call (no mutation depends on registration or
\* serving state), and no step of a Register or Start changes a value that
\* the mutations recorded.
C14_MutationsIndependentOfRegisterAndStart ==
    /\ [](\A c \in Callers :
            (callers[c].pc = "idle" /\ ops < MaxOps) =>
                /\ ENABLED (\E name \in Names, status \in ScanStatuses :
                                IncComplianceScanStatus(c, Met, name, status))
                /\ ENABLED (\E name \in Names, state \in ApplicationStates :
                                IncComplianceRemediationStatus(c, Met, name, state))
                /\ ENABLED (\E setter \in Setters, name \in Names :
                                SetComplianceState(c, Met, setter, name)))
    /\ [][ (register' # register \/ start' # start) => UNCHANGED metricVars ]_vars

\* C14 witness: values are recorded in a counter and in the gauge of a
\* Reporter whose Start has returned after a listener failure.
C14_Witness ==
    /\ \E key \in RemediationTuples : Value(remStatus[Met], key) = 1
    /\ \E key \in SuiteTuples : key \in DOMAIN stateGauge[Met]
    /\ start[Met].pc = "returned"

\* The sum of the values read for the tuples of keys in vec.
RECURSIVE SumOver(_, _)
SumOver(vec, keys) ==
    IF keys = {} THEN 0
    ELSE LET key == CHOOSE k \in keys : TRUE
         IN  Value(vec, key) + SumOver(vec, keys \ {key})

\* The scan-status increments made so far for scan name n on r, over all
\* (phase, result) tuples.
ScanStatusTotal(r, n) ==
    SumOver(scanStatus[r], { key \in ScanStatusTuples : key[1] = n })

\* C15: in every state, also between the two increments of a call and with
\* two calls interleaved, the scan-error counter of a name is at most the sum
\* of the scan-status counters of that name.
C15_ScanErrorNeverAheadOfScanStatus ==
    \A r \in Reporters, n \in Names :
        Value(scanError[r], <<n>>) <= ScanStatusTotal(r, n)

\* C15 witness: of two error-carrying calls for one name, one has finished and
\* the other stands between its two increments.
C15_Witness ==
    \E n \in Names, c \in Callers :
        /\ callers[c] = [pc |-> "scanError", met |-> Met, name |-> n]
        /\ Value(scanError[Met], <<n>>) = 1
        /\ ScanStatusTotal(Met, n) = 2

\* C16: every instrument a Register invocation registered is still registered
\* as that Reporter's collector after the invocation failed at a later
\* instrument (and at any time during it): a failure rolls nothing back.
C16_FailedRegisterKeepsRegistered ==
    \A r \in Reporters :
        \A name \in register[r].ok :
            /\ FQName(name) \in DOMAIN registry
            /\ registry[FQName(name)] = r

\* C16 witness: a Reporter's first Register failed part-way (another Reporter
\* owns an instrument), and its second Register failed with a duplicate
\* registration on an instrument the first had left registered.
C16_Witness ==
    \E r \in Reporters, s \in Reporters, m \in Instruments :
        /\ r # s
        /\ registerHist[r].count = 2
        /\ register[r].failed = {m}
        /\ register[r].result.err = "AlreadyRegisteredError"
        /\ FQName(m) \in DOMAIN registry /\ registry[FQName(m)] = r
        /\ \E fq \in DOMAIN registry : registry[fq] = s

\* C17: AddToManager adds the Reporter to the manager before it invokes any
\* controller-add function; when m.Add fails nothing is invoked and that
\* error is returned; otherwise the functions are invoked in list order, each
\* with the same Reporter handle, the loop stops at the first error and
\* returns it, and nil is returned when all succeeded.
C17_AddToManagerOrderAndFirstError ==
    LET inv == manager.invoked
        n == Len(inv)
        allOk == \A k \in 1..n : inv[k].err = NoError
    IN /\ n <= Len(manager.funcs)
       /\ \A k \in 1..n : /\ inv[k].fn = manager.funcs[k]
                           /\ inv[k].met = manager.met
                           /\ inv[k].added
       /\ \A k \in 1..(n - 1) : inv[k].err = NoError
       /\ manager.pc = "loop" => manager.met \in manager.runnables /\ allOk
       /\ manager.pc = "returned" =>
            \/ /\ manager.ret = AddError
               /\ n = 0
               /\ manager.met \notin manager.runnables
            \/ /\ manager.ret = NoError
               /\ manager.met \in manager.runnables
               /\ n = Len(manager.funcs)
               /\ allOk
            \/ /\ n >= 1
               /\ manager.ret = inv[n].err
               /\ manager.ret = FuncError(manager.funcs[n])
               /\ manager.met \in manager.runnables

\* C17 witness: AddToManager returned the error of the second function of a
\* list of three, and the third was not invoked.
C17_Witness ==
    /\ manager.pc = "returned"
    /\ Len(manager.funcs) = 3
    /\ Len(manager.invoked) = 2
    /\ manager.invoked[1].err = NoError
    /\ manager.ret = FuncError(manager.funcs[2])

\* The child of key in a vector, if it has one.
Child(vec, key) == IF key \in DOMAIN vec THEN <<vec[key]>> ELSE <<>>

\* Between the vectors old and new of one instrument, no label tuple other
\* than key on Reporter r was created, removed or changed in value.
OnlyChanged(new, old, r, key) ==
    \A s \in Reporters :
        \A k \in DOMAIN new[s] \cup DOMAIN old[s] :
            <<s, k>> # <<r, key>> => Child(new[s], k) = Child(old[s], k)

\* C18: each mutation operation changes only the label tuple it names:
\* IncComplianceRemediationStatus leaves scan-status, scan-error and
\* compliance-state alone and every other remediation tuple; both increments
\* of IncComplianceScanStatus leave remediation-status and compliance-state
\* alone and every other scan-status / scan-error tuple; a setter leaves all
\* counters alone and the gauge of every other suite name.
C18_MutationsChangeOnlyTheirTuple ==
    [][ /\ issuedRem' # issuedRem =>
            \A c \in Callers, r \in Reporters, name \in Names, state \in ApplicationStates :
                IncComplianceRemediationStatus(c, r, name, state) =>
                    /\ UNCHANGED <<scanStatus, scanError, stateGauge>>
                    /\ OnlyChanged(remStatus', remStatus, r, <<name, state>>)
        /\ issuedScan' # issuedScan =>
            \A c \in Callers, r \in Reporters, name \in Names, status \in ScanStatuses :
                IncComplianceScanStatus(c, r, name, status) =>
                    /\ UNCHANGED <<remStatus, stateGauge, scanError>>
                    /\ OnlyChanged(scanStatus', scanStatus, r,
                                   <<name, status.Phase, status.Result>>)
        /\ \A c \in Callers :
                (callers[c].pc = "scanError" /\ IncComplianceScanError(c)) =>
                    /\ UNCHANGED <<remStatus, stateGauge, scanStatus>>
                    /\ OnlyChanged(scanError', scanError, callers[c].met,
                                   <<callers[c].name>>)
        /\ (ops' # ops /\ UNCHANGED <<issuedScan, issuedRem, register>>) =>
            \A c \in Callers, r \in Reporters, name \in Names, setter \in Setters :
                SetComplianceState(c, r, setter, name) =>
                    /\ UNCHANGED <<scanStatus, scanError, remStatus>>
                    /\ OnlyChanged(stateGauge', stateGauge, r, <<name>>)
      ]_vars

\* C18 witness: a scan, a remediation and a suite that share one name string
\* have each been reported on the same Reporter.
C18_Witness ==
    \E n \in Names :
        /\ <<n>> \in DOMAIN stateGauge[Met]
        /\ \E key \in DOMAIN scanStatus[Met] : key[1] = n
        /\ \E key \in DOMAIN remStatus[Met] : key[1] = n
        /\ AllCallersIdle

\* C19: every invocation of Start binds the scrape handler at HandlerPath on
\* the process-wide multiplexer before it serves: the path is bound exactly
\* when some Start has been invoked, the first invocation binds it and serves
\* or returns nil, and every later invocation, on the same or another
\* Reporter, hits the duplicate binding and does not return.
C19_SecondStartPanics ==
    /\ []( /\ HandlerPath \in mux <=> \E r \in Reporters : start[r].pc # "idle"
           /\ Cardinality({ r \in Reporters : start[r].pc \in {"serving", "returned"} }) <= 1 )
    /\ [][ ops' # ops =>
            \A r \in Reporters, outcome \in ListenOutcomes :
                StartCall(r, outcome) =>
                    IF HandlerPath \in mux
                    THEN start'[r].pc = "panicked" /\ start'[r].ret = None
                    ELSE /\ HandlerPath \in mux'
                         /\ start'[r].pc \in {"serving", "returned"}
                         /\ start'[r].pc = "returned" => start'[r].ret = Nil
      ]_vars

\* C19 witness: Start on one Reporter bound the path and returned nil or is
\* serving, and a later Start on another Reporter panicked.
C19_Witness ==
    \E r \in Reporters, s \in Reporters :
        /\ r # s
        /\ start[s].pc \in {"serving", "returned"}
        /\ start[r].pc = "panicked"
        /\ HandlerPath \in mux

====
